---- MODULE Spec2Model ----
(***************************************************************************)
(* Model of audio_processor.py: the pre-flight checks of main(), the       *)
(* bottom-up directory renaming of rename_directories() and the per-file   *)
(* decide / rename / convert loop of process_files().                      *)
(*                                                                         *)
(* A text string is a sequence of one-character strings, so that lower(),  *)
(* replace(), endswith() and the stem / suffix split are computed and not  *)
(* assumed.  The filesystem is a set of directory paths and a set of file  *)
(* records; a file's audio content is an identity (id) and the format the  *)
(* probe utility reports for it (fmt).  Renames follow POSIX rename(2).    *)
(***************************************************************************)
EXTENDS Integers, Sequences, FiniteSets, TLC

\* ------------------------------------------------------------------ bounds
MaxDirs  == 2    \* directories under the target (and the deepest nesting)
MaxFiles == 2    \* candidate audio files under the target
MaxEntries == 3  \* directories and files under the target, together
MaxLen == 3      \* characters of a name handed to sanitize_name on its own

\* the value of a record variable that holds nothing yet
None == [none |-> TRUE]

\* ----------------------------------------------------------------- strings
Upper == <<"A","B","C","D","E","F","G","H","I","J","K","L","M",
           "N","O","P","Q","R","S","T","U","V","W","X","Y","Z">>
Lowers == <<"a","b","c","d","e","f","g","h","i","j","k","l","m",
            "n","o","p","q","r","s","t","u","v","w","x","y","z">>

\* str.lower() on one character
LowerChar(c) ==
    IF \E k \in 1..Len(Upper) : Upper[k] = c
    THEN Lowers[CHOOSE k \in 1..Len(Upper) : Upper[k] = c]
    ELSE c

\* str.lower()
lower(s) == [k \in 1..Len(s) |-> LowerChar(s[k])]

\* str.replace(a, b) for one-character a and b
replace(s, a, b) == [k \in 1..Len(s) |-> IF s[k] = a THEN b ELSE s[k]]

\* A character that str.isupper() is true of and that has no lower-case form
\* (U+2102, DOUBLE-STRUCK CAPITAL C, one of several hundred): str.lower() leaves
\* it as it is.  It stands here as one character.
CAPITAL_ONLY == "U+2102"

\* str.isupper() on one character
isupper(c) == (\E k \in 1..Len(Upper) : Upper[k] = c) \/ c = CAPITAL_ONLY

\* the mutant of sanitize_name that forgets to lower-case
sanitize_name_keep_case(name) == replace(name, " ", "_")

\* sanitize_name(name): name.lower().replace(' ', '_')
sanitize_name(name) == replace(lower(name), " ", "_")

\* str.startswith / str.endswith
startswith(s, p) == Len(p) <= Len(s) /\ SubSeq(s, 1, Len(p)) = p
endswith(s, e) == Len(e) <= Len(s) /\ SubSeq(s, Len(s) - Len(e) + 1, Len(s)) = e

\* index of the last '.' of a name, 0 when there is none
LastDot(name) ==
    IF \E k \in 1..Len(name) : name[k] = "."
    THEN CHOOSE k \in 1..Len(name) :
            name[k] = "." /\ \A j \in (k+1)..Len(name) : name[j] # "."
    ELSE 0

\* pathlib's PurePath.suffix: from the last dot, unless the name starts or ends with it
suffix(name) ==
    IF LastDot(name) > 1 /\ LastDot(name) < Len(name)
    THEN SubSeq(name, LastDot(name), Len(name))
    ELSE <<>>

\* pathlib's PurePath.stem
stem(name) ==
    IF LastDot(name) > 1 /\ LastDot(name) < Len(name)
    THEN SubSeq(name, 1, LastDot(name) - 1)
    ELSE name

DOT_WAV  == <<".","w","a","v">>
DOT_AIF  == <<".","a","i","f">>
DOT_AIFF == <<".","a","i","f","f">>
DOT_MP3  == <<".","m","p","3">>
DOT_FLAC == <<".","f","l","a","c">>
AudioExtensions == {DOT_WAV, DOT_AIF, DOT_AIFF, DOT_MP3, DOT_FLAC}
LOG_NAME == <<"p","r","o","c","e","s","s","i","n","g","_","l","o","g",".","t","x","t">>
TMP_PREFIX == <<"_","t","m","p","_">>
DASHES  == <<"-","-">>
DRY_RUN == <<"-","-","d","r","y","-","r","u","n">>
FORCE   == <<"-","-","f","o","r","c","e">>
YES     == <<"y","e","s">>

\* the mutant of IsCandidateName that takes the .wav files only
IsWavName(filename) == endswith(lower(filename), DOT_WAV)

\* the extension filter of the inventory and of the file count
IsCandidateName(filename) ==
    /\ \E e \in AudioExtensions : endswith(lower(filename), e)
    /\ filename # LOG_NAME

\* ------------------------------------------------------------- file system
\* a directory path is the sequence of names below the target; <<>> is the target
Front(p) == SubSeq(p, 1, Len(p) - 1)
Last(p) == p[Len(p)]
IsUnder(p, d) == Len(p) > Len(d) /\ SubSeq(p, 1, Len(d)) = d
Reprefix(p, old, new) ==
    IF p = old \/ IsUnder(p, old)
    THEN new \o SubSeq(p, Len(old) + 1, Len(p))
    ELSE p

\* a file path is [dir, name]; a file is [dir, name, id, fmt]
Path(dir, name) == [dir |-> dir, name |-> name]
PathOf(f) == Path(f.dir, f.name)
FileExists(fs, p) == \E f \in fs : PathOf(f) = p
FileAt(fs, p) == CHOOSE f \in fs : PathOf(f) = p
Remove(fs, p) == {f \in fs : PathOf(f) # p}
Put(fs, p, id, fmt) ==
    Remove(fs, p) \cup {[dir |-> p.dir, name |-> p.name, id |-> id, fmt |-> fmt]}
\* os.rename of a file: an existing file at the destination is replaced
MoveFile(fs, p, q) == Put(Remove(fs, p), q, FileAt(fs, p).id, FileAt(fs, p).fmt)


\* ---------------------------------------------------------- external codec
\* What the probe utility returns for a file, by the format of its content:
\* the call raises (the utility cannot be run, or TimeoutExpired after 5 s), or
\* it returns an exit status and an output that parses or not and holds an
\* audio stream or not.
ProbeFailures == {"raises", "nonzero", "malformed", "nostream"}

ffprobe(fmt) ==
    [raises     |-> fmt = "raises",
     returncode |-> IF fmt = "nonzero" THEN 1 ELSE 0,
     parses     |-> fmt # "malformed",
     audio      |-> fmt \in {"clean", "dirty"},
     rate       |-> IF fmt = "clean" THEN 44100 ELSE 48000,
     bits       |-> IF fmt = "clean" THEN 16 ELSE 24]

\* the mutant of the encoder command line that asks for another sample rate
EncoderOutputWrongRate == "dirty"

\* the format the encoder writes: -ar 44100 -sample_fmt s16 -ac 2
EncoderOutput == "clean"

\* what a failed encode can leave at the output path: nothing written, or a
\* partial file holding no whole audio content (id 0); a partial file is
\* removed, or the run ends, before anything probes it
EncodeLeaves == {"untouched", "partial"}

\* ---------------------------------------------------------------- decision
\* the mutant of needs_rename that compares the whole name, the extension included
needs_rename_whole_name(old_path) == old_path.name # sanitize_name(old_path.name)

\* lines 119-121
needs_rename(old_path) == stem(old_path.name) # sanitize_name(stem(old_path.name))

\* lines 124-146: the probe of a .wav file, any other extension always converts
needs_conversion(old_path, fmt) ==
    IF lower(suffix(old_path.name)) = DOT_WAV
    THEN LET result == ffprobe(fmt) IN
         IF result.raises THEN TRUE
         ELSE IF result.returncode # 0 THEN FALSE
         ELSE IF ~result.parses THEN TRUE
         ELSE IF ~result.audio THEN FALSE
         ELSE result.rate # 44100 \/ result.bits # 16
    ELSE TRUE

\* the mutant of final_path that is built from old_name, not from new_name
final_path_old_name(old_path) ==
    Path(old_path.dir, stem(old_path.name) \o DOT_WAV)

\* lines 148-149: final_path = old_path.parent / (new_name + '.wav')
final_path(old_path) ==
    Path(old_path.dir, sanitize_name(stem(old_path.name)) \o DOT_WAV)

\* line 219: temp_path = old_path.parent / f"_tmp_{new_name}.wav"
temp_path(old_path) ==
    Path(old_path.dir, TMP_PREFIX \o sanitize_name(stem(old_path.name)) \o DOT_WAV)

ActionOf(nr, nc) ==
    IF nr /\ nc THEN "rename+convert"
    ELSE IF nc THEN "convert"
    ELSE IF nr THEN "rename"
    ELSE "none"

\* ---------------------------------------------------------------- universe
DirNames == {<<"D"," ">>, <<"d","_">>}
AllDirPaths == UNION {[1..n -> DirNames] : n \in 1..MaxDirs}
Trees ==
    {t \in SUBSET AllDirPaths :
        /\ Cardinality(t) <= MaxDirs
        /\ \A p \in t : Len(p) > 1 => Front(p) \in t}

N_UPPER  == <<"K"," ","k",".","W","A","V">>
N_EXT    == <<"k","_","k",".","W","A","V">>
N_WAV    == <<"k","_","k",".","w","a","v">>
N_MP3    == <<"k","_","k",".","m","p","3">>
N_TMP    == <<"_","t","m","p","_","k","_","k",".","w","a","v">>
FileKinds ==
    << [name |-> N_UPPER, fmt |-> "clean"],
       [name |-> N_UPPER, fmt |-> "dirty"],
       [name |-> N_EXT,   fmt |-> "clean"],
       [name |-> N_WAV,   fmt |-> "clean"],
       [name |-> N_WAV,   fmt |-> "dirty"],
       [name |-> N_WAV,   fmt |-> "raises"],
       [name |-> N_WAV,   fmt |-> "nonzero"],
       [name |-> N_WAV,   fmt |-> "malformed"],
       [name |-> N_WAV,   fmt |-> "nostream"],
       [name |-> N_MP3,   fmt |-> "dirty"],
       [name |-> N_TMP,   fmt |-> "clean"] >>
Selections ==
    {c \in SUBSET (1..Len(FileKinds)) :
        /\ Cardinality(c) <= MaxFiles
        /\ \A a, b \in c : a # b => FileKinds[a].name # FileKinds[b].name}
Rank(c, k) == Cardinality({j \in c : j <= k})

\* the command line after the program name, and the answers to the prompt
TARGET == <<"s">>
Argvs == {<<>>, <<DRY_RUN>>, <<TARGET>>, <<TARGET, DRY_RUN>>, <<TARGET, FORCE>>}
Responses == {YES, <<"Y","E","S">>, <<"n","o">>, <<>>}
Unread == <<"?">>

Range(s) == {s[k] : k \in DOMAIN s}
Perms(S) ==
    {s \in [1..Cardinality(S) -> S] : \A a, b \in DOMAIN s : a # b => s[a] # s[b]}


\* ------------------------------------------------------------------- state
VARIABLES
    dirs,           \* the directories under the target, as paths
    files,          \* the files under the target
    log_file,       \* the lines of processing_log.txt, <<>> while it does not exist
    pc,             \* where the program is
    inputs,         \* what main() is given: the tools, argv, the target, the answer
    dry_run,        \* main: dry_run
    exit_code,      \* the exit status of the invocation, -1 while it runs
    all_dirs,       \* rename_directories: all_dirs
    di,             \* rename_directories: the position of the loop in all_dirs
    renamed_count,  \* rename_directories: renamed_count
    audio_files,    \* process_files: audio_files
    i,              \* process_files: i
    total,          \* process_files: total
    processed, renamed, converted, failed,     \* process_files: the counters
    job,            \* process_files: the locals of the loop body for the current file
    start,          \* observation: the tree when the invocation started
    cand,           \* observation: the content each inventory entry held when scanned
    decided,        \* observation: the action decided for each inventory entry
    clean,          \* observation: no step of this invocation has failed so far
    prev,           \* observation: the previous invocation
    arg, ret        \* sanitize_name called on its own: the argument and the result

vars == <<dirs, files, log_file, pc, inputs, dry_run, exit_code, all_dirs, di,
          renamed_count, audio_files, i, total, processed, renamed, converted,
          failed, job, start, cand, decided, clean, prev, arg, ret>>

fsvars == <<dirs, files>>
phase1vars == <<all_dirs, di, renamed_count>>
counters == <<processed, renamed, converted, failed>>
phase2vars == <<audio_files, i, total, processed, renamed, converted, failed, job,
                cand, decided>>
mainvars == <<inputs, dry_run, exit_code, start, prev>>
callvars == <<arg, ret>>

NoPrev == [mode |-> "none", clean |-> FALSE, work |-> FALSE, decided |-> {}]

Init ==
    /\ dirs \in Trees
    /\ \E home \in dirs \cup {<<>>}, chosen \in Selections :
        /\ Cardinality(dirs) + Cardinality(chosen) <= MaxEntries
        /\ files = {[dir |-> home, name |-> FileKinds[k].name,
                    id |-> Rank(chosen, k), fmt |-> FileKinds[k].fmt] : k \in chosen}
    /\ log_file = <<>>
    /\ pc = "idle"
    /\ inputs = None
    /\ dry_run = FALSE
    /\ exit_code = -1
    /\ all_dirs = <<>>
    /\ di = 1
    /\ renamed_count = 0
    /\ audio_files = <<>>
    /\ i = 1
    /\ total = 0
    /\ processed = 0
    /\ renamed = 0
    /\ converted = 0
    /\ failed = 0
    /\ job = None
    /\ start = [dirs |-> dirs, files |-> files, log |-> log_file]
    /\ cand = <<>>
    /\ decided = <<>>
    /\ clean = TRUE
    /\ prev = NoPrev
    /\ arg = <<>>
    /\ ret = <<>>

\* Path.exists(): a file or a directory is at the path
exists(p) == FileExists(files, p) \/ Append(p.dir, p.name) \in dirs

\* -------------------------------------------------------------------- main
\* The inputs main() reads, in the order it reads them; an input the run never
\* reaches is Unread.
HasTarget(argv) == Len(argv) > 0 /\ ~startswith(argv[1], DASHES)
ToolsOk(in) == in.ffmpeg = "ok" /\ in.ffprobe = "ok"
Prompted(in) ==
    /\ ToolsOk(in) /\ HasTarget(in.argv) /\ in.target = "dir"
    /\ DRY_RUN \notin Range(in.argv) /\ FORCE \notin Range(in.argv)
Inputs ==
    {in \in [ffmpeg : {"ok", "missing"}, ffprobe : {"ok", "missing", "unread"},
             argv : Argvs \cup {<<Unread>>}, target : {"dir", "file", "missing", "unread"},
             response : Responses \cup {Unread}] :
        /\ (in.ffprobe = "unread") <=> (in.ffmpeg # "ok")
        /\ (in.argv = <<Unread>>) <=> ~ToolsOk(in)
        /\ (in.target = "unread") <=> ~(ToolsOk(in) /\ HasTarget(in.argv))
        /\ (in.response = Unread) <=> ~Prompted(in)}

\* the mutant of Preflight that does not look at what the target is
PreflightNoTargetCheck(in) ==
    IF ~ToolsOk(in) THEN "no tools"
    ELSE IF ~HasTarget(in.argv) THEN "usage"
    ELSE IF Prompted(in) /\ lower(in.response) # YES THEN "no backup"
    ELSE "ok"

\* lines 274-340: "ok", or the reason of sys.exit(1)
Preflight(in) ==
    IF ~ToolsOk(in) THEN "no tools"
    ELSE IF ~HasTarget(in.argv) THEN "usage"
    ELSE IF in.target = "missing" THEN "does not exist"
    ELSE IF in.target # "dir" THEN "not a directory"
    ELSE IF DRY_RUN \notin Range(in.argv) /\ FORCE \notin Range(in.argv)
            /\ lower(in.response) # YES THEN "no backup"
    ELSE "ok"

\* lines 323-328: the count of audio files printed and logged
audio_count == Cardinality({f \in files : \E e \in AudioExtensions : endswith(lower(f.name), e)})

\* main(), lines 273-348: the checks, then the report file is opened and headed
Main ==
    /\ pc = "idle"
    /\ UNCHANGED callvars
    /\ \E in \in Inputs :
        /\ inputs' = in
        /\ dry_run' = IF ToolsOk(in) THEN DRY_RUN \in Range(in.argv) ELSE dry_run
        /\ IF Preflight(in) = "ok"
           THEN /\ pc' = "phase1"
                /\ exit_code' = -1
                /\ log_file' = <<IF DRY_RUN \in Range(in.argv) THEN "Log - DRY RUN"
                                   ELSE "Log - LIVE", "Files found">>
           ELSE /\ pc' = "exited"
                /\ exit_code' = 1
                /\ UNCHANGED log_file
    /\ start' = [dirs |-> dirs, files |-> files, log |-> log_file]
    /\ clean' = TRUE
    /\ UNCHANGED <<fsvars, prev, phase1vars, phase2vars>>


\* ----------------------------------------------------- rename_directories
\* the mutant of DeepestFirst that leaves the list in the order of the walk
WalkOrder(s) == TRUE

\* line 28: the list is sorted by depth, deepest first; os.walk lists the
\* entries of one directory in no particular order
DeepestFirst(s) == \A a, b \in DOMAIN s : a < b => Len(s[a]) >= Len(s[b])

\* lines 16-28: enumerate and sort the directories
WalkDirs ==
    /\ pc = "phase1"
    /\ UNCHANGED callvars
    /\ all_dirs' \in {s \in Perms(dirs) : DeepestFirst(s)}
    /\ di' = 1
    /\ renamed_count' = 0
    /\ log_file' = Append(log_file, "PHASE 1")
    /\ inputs' = None
    /\ pc' = "dirs"
    /\ UNCHANGED <<fsvars, dry_run, exit_code, start, prev, clean, phase2vars>>

\* os.rename of a directory onto new_dir fails when a file or a directory that
\* is not empty is there; an empty directory there is replaced
Blocked(new_dir) ==
    \/ \E f \in files : f.dir = Front(new_dir) /\ f.name = Last(new_dir)
    \/ /\ new_dir \in dirs
       /\ \/ \E d \in dirs : IsUnder(d, new_dir)
          \/ \E f \in files : f.dir = new_dir \/ IsUnder(f.dir, new_dir)

\* the mutant of RenameAttempted that forgets the dry-run gate
RenameAlways == TRUE

\* line 51: the rename is attempted outside a dry run only
RenameAttempted == ~dry_run

\* lines 30-57: one directory of all_dirs
RenameDir ==
    /\ pc = "dirs"
    /\ UNCHANGED callvars
    /\ di <= Len(all_dirs)
    /\ LET old_dir  == all_dirs[di]
           old_name == Last(old_dir)
           new_name == sanitize_name(old_name)
           new_dir  == Append(Front(old_dir), new_name)
       IN
       IF old_dir \notin dirs \/ old_name = new_name
       THEN UNCHANGED <<fsvars, log_file, renamed_count, clean>>
       ELSE IF ~RenameAttempted
       THEN /\ log_file' = Append(log_file, "Rename")
            /\ UNCHANGED <<fsvars, renamed_count, clean>>
       ELSE \E ok \in BOOLEAN :
            /\ ok => ~Blocked(new_dir)
            /\ IF ok
               THEN /\ dirs' = {Reprefix(d, old_dir, new_dir) : d \in dirs \ {new_dir}}
                    /\ files' = {[f EXCEPT !.dir = Reprefix(@, old_dir, new_dir)] : f \in files}
                    /\ renamed_count' = renamed_count + 1
                    /\ log_file' = Append(log_file, "Rename")
                    /\ UNCHANGED clean
               ELSE /\ log_file' = log_file \o <<"Rename", "ERROR">>
                    /\ clean' = FALSE
                    /\ UNCHANGED <<fsvars, renamed_count>>
    /\ di' = di + 1
    /\ UNCHANGED <<pc, all_dirs, mainvars, phase2vars>>

\* lines 59-61: the end of phase 1; the list and the loop position are locals
\* of rename_directories and end with it, the count is what it returns
ReturnRenamed ==
    /\ pc = "dirs"
    /\ UNCHANGED callvars
    /\ di > Len(all_dirs)
    /\ log_file' = Append(log_file, "Renamed")
    /\ pc' = "phase2"
    /\ all_dirs' = <<>>
    /\ di' = 1
    /\ UNCHANGED <<fsvars, mainvars, clean, renamed_count, phase2vars>>


\* ------------------------------------------------------------ process_files
\* lines 89-112: the inventory, complete before the first file is handled
CollectAudioFiles ==
    /\ pc = "phase2"
    /\ UNCHANGED callvars
    /\ \E inventory \in Perms({PathOf(f) : f \in {g \in files : IsCandidateName(g.name)}}) :
        /\ audio_files' = inventory
        /\ cand' = [k \in DOMAIN inventory |-> FileAt(files, inventory[k]).id]
        /\ decided' = [k \in DOMAIN inventory |-> "unseen"]
        /\ total' = Len(inventory)
        /\ log_file' = log_file \o <<"PHASE 2", "Found">>
        /\ pc' = IF Len(inventory) = 0 THEN "complete" ELSE "files"
        /\ exit_code' = IF Len(inventory) = 0 THEN 0 ELSE exit_code
    /\ i' = 1
    /\ processed' = 0
    /\ renamed' = 0
    /\ converted' = 0
    /\ failed' = 0
    /\ job' = None
    /\ UNCHANGED <<fsvars, inputs, dry_run, start, prev, clean, phase1vars>>

\* the locals of the loop body for the file at old_path
Locals(old_path) ==
    [old_path         |-> old_path,
     id               |-> FileAt(files, old_path).id,
     fmt              |-> FileAt(files, old_path).fmt,
     needs_rename     |-> needs_rename(old_path),
     needs_conversion |-> needs_conversion(old_path, FileAt(files, old_path).fmt),
     final_path       |-> final_path(old_path),
     temp_path        |-> temp_path(old_path),
     before           |-> [processed |-> processed, renamed |-> renamed,
                           converted |-> converted, failed |-> failed,
                           log |-> Len(log_file)],
     steps            |-> <<>>]

Did(step) == job' = [job EXCEPT !.steps = Append(@, step)]

\* lines 114-196 and 243-257: one inventory entry: skipped when it is gone or
\* needs nothing, reported in a dry run, renamed, or handed to the conversion
ProcessFile ==
    /\ pc = "files"
    /\ UNCHANGED callvars
    /\ i <= total
    /\ LET old_path == audio_files[i] IN
       IF ~FileExists(files, old_path)
       THEN /\ decided' = [decided EXCEPT ![i] = "gone"]
            /\ job' = None
            /\ i' = i + 1
            /\ UNCHANGED <<fsvars, log_file, pc, counters, clean>>
       ELSE LET loc == Locals(old_path)
                nr  == loc.needs_rename
                nc  == loc.needs_conversion
                line == "Processing"
            IN
            /\ decided' = [decided EXCEPT ![i] = ActionOf(nr, nc)]
            /\ IF ~nr /\ ~nc
               THEN /\ job' = [loc EXCEPT !.steps = <<"skip">>]
                    /\ i' = i + 1
                    /\ UNCHANGED <<fsvars, log_file, pc, counters, clean>>
               ELSE IF dry_run
               THEN /\ job' = [loc EXCEPT !.steps = <<"would">>]
                    /\ log_file' = log_file \o <<line, "Would">>
                    /\ renamed' = IF nr THEN renamed + 1 ELSE renamed
                    /\ converted' = IF nc THEN converted + 1 ELSE converted
                    /\ processed' = processed + 1
                    /\ i' = i + 1
                    /\ UNCHANGED <<fsvars, pc, failed, clean>>
               ELSE IF nc
               THEN /\ job' = loc
                    /\ log_file' = Append(log_file, line)
                    /\ pc' = "encode"
                    /\ UNCHANGED <<fsvars, i, counters, clean>>
               ELSE \E ok \in BOOLEAN :
                    /\ ok => Append(loc.final_path.dir, loc.final_path.name) \notin dirs
                    /\ IF ok
                       THEN /\ files' = MoveFile(files, old_path, loc.final_path)
                            /\ job' = [loc EXCEPT !.steps = <<"rename ok">>]
                            /\ renamed' = renamed + 1
                            /\ processed' = processed + 1
                            /\ log_file' = log_file \o <<line, "SUCCESS">>
                            /\ UNCHANGED <<failed, clean>>
                       ELSE /\ job' = [loc EXCEPT !.steps = <<"rename failed">>]
                            /\ failed' = failed + 1
                            /\ clean' = FALSE
                            /\ log_file' = log_file \o <<line, "ERROR">>
                            /\ UNCHANGED <<files, renamed, processed>>
                    /\ i' = i + 1
                    /\ UNCHANGED <<dirs, pc, converted>>
    /\ UNCHANGED <<mainvars, phase1vars, audio_files, total, cand>>

\* lines 219-221 and 63-85: the encoder writes the temporary file and reports;
\* on_failure is where process_files goes when it reports a failure
EncodeStep(on_failure) ==
    /\ pc = "encode"
    /\ UNCHANGED callvars
    /\ \E ok \in BOOLEAN :
        IF ok
        THEN /\ files' = Put(files, job.temp_path, job.id, EncoderOutput)
             /\ Did("encode ok")
             /\ pc' = "unlink"
             /\ UNCHANGED <<log_file, clean>>
        ELSE \E left \in EncodeLeaves :
             /\ files' = IF left = "untouched" THEN files
                         ELSE Put(files, job.temp_path, 0, left)
             /\ Did("encode failed")
             /\ log_file' = Append(log_file, "FFmpeg error")
             /\ clean' = FALSE
             /\ pc' = on_failure
    /\ UNCHANGED <<dirs, mainvars, phase1vars, audio_files, i, total, counters, cand, decided>>

\* the mutant of Encode that does not look at what process_audio_file returns
EncodeUnchecked == EncodeStep("unlink")

\* line 221: if process_audio_file(...): ... else: (line 237)
Encode == EncodeStep("encode failed")

\* line 224: old_path.unlink()
UnlinkOriginal ==
    /\ pc = "unlink"
    /\ UNCHANGED callvars
    /\ \E ok \in BOOLEAN :
        IF ok
        THEN /\ files' = Remove(files, job.old_path)
             /\ Did("unlink ok")
             /\ pc' = "install"
             /\ UNCHANGED clean
        ELSE /\ Did("unlink failed")
             /\ clean' = FALSE
             /\ pc' = "convert error"
             /\ UNCHANGED files
    /\ UNCHANGED <<dirs, log_file, mainvars, phase1vars, audio_files, i, total, counters,
                   cand, decided>>

\* lines 225-231 and 256-257: temp_path.rename(final_path) and the counters
RenameTemp ==
    /\ pc = "install"
    /\ UNCHANGED callvars
    /\ \E ok \in BOOLEAN :
        /\ ok => /\ FileExists(files, job.temp_path)
                 /\ Append(job.final_path.dir, job.final_path.name) \notin dirs
        /\ IF ok
           THEN /\ files' = MoveFile(files, job.temp_path, job.final_path)
                /\ Did("install ok")
                /\ converted' = converted + 1
                /\ renamed' = IF job.needs_rename THEN renamed + 1 ELSE renamed
                /\ processed' = processed + 1
                /\ log_file' = Append(log_file, "SUCCESS")
                /\ i' = i + 1
                /\ pc' = "files"
                /\ UNCHANGED clean
           ELSE /\ Did("install failed")
                /\ clean' = FALSE
                /\ pc' = "convert error"
                /\ UNCHANGED <<files, converted, renamed, processed, log_file, i>>
    /\ UNCHANGED <<dirs, mainvars, phase1vars, audio_files, total, failed, cand, decided>>

\* lines 239-240 and 234-235: if temp_path.exists(): temp_path.unlink(); when the
\* unlink raises, nothing catches the exception and the run ends
RemoveTemp(next) ==
    IF exists(job.temp_path)
    THEN \E ok \in BOOLEAN :
         /\ ok => FileExists(files, job.temp_path)
         /\ IF ok
            THEN /\ files' = Remove(files, job.temp_path)
                 /\ pc' = next
                 /\ i' = i + 1
                 /\ exit_code' = exit_code
            ELSE /\ pc' = "crashed"
                 /\ exit_code' = 1
                 /\ UNCHANGED <<files, i>>
    ELSE /\ pc' = next
         /\ i' = i + 1
         /\ UNCHANGED <<files, exit_code>>

\* lines 232-236: the handler of a failed unlink or rename of a conversion;
\* it logs, removes the temporary file and leaves the counters as they are
ConvertError ==
    /\ pc = "convert error"
    /\ UNCHANGED callvars
    /\ log_file' = Append(log_file, "ERROR")
    /\ RemoveTemp("files")
    /\ Did(IF pc' = "crashed" THEN "crash" ELSE "handled")
    /\ UNCHANGED <<dirs, failed, inputs, dry_run, start, prev, clean, phase1vars, audio_files,
                   total, processed, renamed, converted, cand, decided>>

\* lines 237-241: the encoder reported a failure
EncodeFailed ==
    /\ pc = "encode failed"
    /\ UNCHANGED callvars
    /\ RemoveTemp("files")
    /\ failed' = IF pc' = "crashed" THEN failed ELSE failed + 1
    /\ Did(IF pc' = "crashed" THEN "crash" ELSE "counted")
    /\ UNCHANGED <<dirs, log_file, inputs, dry_run, start, prev, clean, phase1vars,
                   audio_files, total, processed, renamed, converted, cand, decided>>

\* lines 259-271 and 356-367: the summary, and main() returns
Summary ==
    /\ pc = "files"
    /\ UNCHANGED callvars
    /\ i > total
    /\ log_file' = Append(log_file, "Summary")
    /\ pc' = "complete"
    /\ exit_code' = 0
    /\ UNCHANGED <<fsvars, inputs, dry_run, start, prev, clean, phase1vars, phase2vars>>

\* the report a finished invocation has left in the target: the program never
\* reads it, the next invocation leaves it (a fatal exit) or truncates it
StaleLog == <<"previous report">>

\* main() has returned (line 367) and the program is invoked again on the tree
\* it left.  An invocation that exited in the checks left the tree as it was, so
\* what follows it is what follows the initial states.
Invoke ==
    /\ pc = "complete"
    /\ UNCHANGED callvars
    /\ prev' = [mode    |-> IF dry_run THEN "dry" ELSE "apply",
                clean   |-> clean,
                work    |-> renamed_count > 0 \/ processed > 0,
                decided |-> IF dry_run
                            THEN {<<cand[k], decided[k]>> : k \in DOMAIN decided}
                            ELSE {}]
    /\ pc' = "idle"
    /\ inputs' = None
    /\ dry_run' = FALSE
    /\ exit_code' = -1
    /\ all_dirs' = <<>>
    /\ di' = 1
    /\ renamed_count' = 0
    /\ audio_files' = <<>>
    /\ i' = 1
    /\ total' = 0
    /\ processed' = 0
    /\ renamed' = 0
    /\ converted' = 0
    /\ failed' = 0
    /\ job' = None
    /\ cand' = <<>>
    /\ decided' = <<>>
    /\ clean' = TRUE
    /\ log_file' = StaleLog
    /\ start' = [dirs |-> dirs, files |-> files, log |-> StaleLog]
    /\ UNCHANGED fsvars

Next ==
    \/ Main
    \/ WalkDirs
    \/ RenameDir
    \/ ReturnRenamed
    \/ CollectAudioFiles
    \/ ProcessFile
    \/ Encode
    \/ UnlinkOriginal
    \/ RenameTemp
    \/ ConvertError
    \/ EncodeFailed
    \/ Summary
    \/ Invoke

Spec == Init /\ [][Next]_vars


\* ------------------------------------------------- sanitize_name on its own
\* the characters of the names: letters of both cases, the space, the
\* underscore, a dot, a tab and a capital without a lower-case form
Alphabet == {"K", "k", " ", "_", ".", "\t", CAPITAL_ONLY}
Names == UNION {[1..n -> Alphabet] : n \in 0..MaxLen}

InitSanitize ==
    /\ arg \in Names
    /\ ret = <<>>
    /\ pc = "call"
    /\ dirs = {}
    /\ files = {}
    /\ log_file = <<>>
    /\ inputs = None
    /\ dry_run = FALSE
    /\ exit_code = -1
    /\ all_dirs = <<>>
    /\ di = 1
    /\ renamed_count = 0
    /\ audio_files = <<>>
    /\ i = 1
    /\ total = 0
    /\ processed = 0
    /\ renamed = 0
    /\ converted = 0
    /\ failed = 0
    /\ job = None
    /\ start = [dirs |-> {}, files |-> {}, log |-> <<>>]
    /\ cand = <<>>
    /\ decided = <<>>
    /\ clean = TRUE
    /\ prev = NoPrev

\* lines 10-12: the call returns its result
CallSanitize ==
    /\ pc = "call"
    /\ ret' = sanitize_name(arg)
    /\ pc' = "returned"
    /\ UNCHANGED <<arg, fsvars, log_file, mainvars, phase1vars, phase2vars, clean>>

\* the result is handed to sanitize_name again
CallAgain ==
    /\ pc = "returned"
    /\ arg # ret
    /\ arg' = ret
    /\ ret' = <<>>
    /\ pc' = "call"
    /\ UNCHANGED <<fsvars, log_file, mainvars, phase1vars, phase2vars, clean>>

NextSanitize ==
    \/ CallSanitize
    \/ CallAgain

SpecSanitize == InitSanitize /\ [][NextSanitize]_vars


\* =================================================================== claims
\* the current file is being converted, or was the last one converted, in apply mode
Converting == job # None /\ ~dry_run /\ pc # "idle" /\ job.needs_conversion

\* a file holding the audio content of the job is at the original, the
\* temporary or the final path
Copies ==
    \E f \in files :
        /\ f.id = job.id
        /\ PathOf(f) \in {job.old_path, job.temp_path, job.final_path}

Holds(p, id) == FileExists(files, p) /\ FileAt(files, p).id = id

\* C1: in apply mode, in every state of a file's conversion and whatever the
\* outcome of each step (a failed deletion of the original or a failed final
\* rename included), the original, the temporary or the final file holds the
\* audio content: the conversion never leaves zero copies.
C1_NeverZeroCopies == Converting => Copies

\* C2: a conversion whose steps succeed runs in the order encode (temporary file
\* fully written, success reported), delete the original, rename the temporary
\* file to the final path; at every state in between the original or its
\* replacement exists.
C2_EncodeDeleteInstall ==
    Converting =>
        /\ pc = "unlink" =>
              /\ job.steps = <<"encode ok">>
              /\ Holds(job.old_path, job.id)
              /\ Holds(job.temp_path, job.id)
              /\ FileAt(files, job.temp_path).fmt = "clean"
        /\ pc = "install" =>
              /\ job.steps = <<"encode ok", "unlink ok">>
              /\ ~FileExists(files, job.old_path)
              /\ Holds(job.temp_path, job.id)
              /\ FileAt(files, job.temp_path).fmt = "clean"
        /\ job.steps = <<"encode ok", "unlink ok", "install ok">> =>
              /\ Holds(job.final_path, job.id)
              /\ FileAt(files, job.final_path).fmt = "clean"
              /\ ~FileExists(files, job.temp_path)
              /\ converted = job.before.converted + 1
        /\ job.steps \in {<<>>, <<"encode ok">>, <<"encode ok", "unlink ok">>,
                          <<"encode ok", "unlink ok", "install ok">>} => Copies

\* C2 witness: a conversion has gone through its three steps
C2_Witness ==
    /\ Converting
    /\ job.steps = <<"encode ok", "unlink ok", "install ok">>
    /\ job.old_path # job.final_path


\* C3: when the encoder fails for a file, then once the file's processing has
\* ended the original is still at its path unchanged, the temporary file is
\* gone, failed has grown by exactly one, processed, converted and renamed have
\* not grown, and the run has gone on to the next inventory entry.
C3_EncoderFailure ==
    (Converting /\ job.steps # <<>> /\ job.steps[1] = "encode failed"
        /\ pc # "encode failed") =>
        /\ pc \in {"files", "complete"}
        /\ Holds(job.old_path, job.id)
        /\ FileAt(files, job.old_path).fmt = job.fmt
        /\ ~exists(job.temp_path)
        /\ failed = job.before.failed + 1
        /\ processed = job.before.processed
        /\ converted = job.before.converted
        /\ renamed = job.before.renamed

NoAction == {"unseen", "gone", "none"}

C5_PreviewMatchesApply ==
    (prev.mode = "dry" /\ ~dry_run) =>
        \A k \in DOMAIN decided :
            decided[k] # "unseen" => <<cand[k], decided[k]>> \in prev.decided

\* C6: for a file with the extension .wav in any letter case, every kind of
\* probe failure makes needs_conversion true.
C6_ProbeFailureConverts ==
    (job # None /\ pc # "idle"
        /\ lower(suffix(job.old_path.name)) = DOT_WAV
        /\ job.fmt \in ProbeFailures) => job.needs_conversion

\* a rename-only action has just been applied
RenamedOnly == job # None /\ ~dry_run /\ pc # "idle" /\ job.steps = <<"rename ok">>

\* the file of the job is at path p with the content it had
Moved(p) ==
    /\ Holds(p, job.id)
    /\ FileAt(files, p).fmt = job.fmt
    /\ p.dir = job.old_path.dir
    /\ ~FileExists(files, job.old_path)

\* C7 as stated: a rename-only action renames the file, in its directory, to
\* the normalized stem followed by the original extension exactly as it was.
C7_RenameKeepsExtension ==
    RenamedOnly =>
        Moved(Path(job.old_path.dir,
                   sanitize_name(stem(job.old_path.name)) \o suffix(job.old_path.name)))

\* C7 as amended: a rename-only action renames the file, in its directory, to
\* the normalized stem followed by the original extension in lower case, which
\* is .wav: the content and the container are as they were.
C7_RenameLowersExtension ==
    RenamedOnly =>
        /\ Moved(Path(job.old_path.dir,
                      sanitize_name(stem(job.old_path.name))
                          \o lower(suffix(job.old_path.name))))
        /\ lower(suffix(job.old_path.name)) = DOT_WAV

\* C7 witness: a file with an upper-case extension has been renamed only
C7_Witness == RenamedOnly /\ suffix(job.old_path.name) = <<".","W","A","V">>

\* C8: when an action fails after the decision (the rename of a rename-only
\* action, or the deletion of the original or the rename of the temporary file
\* after a successful encode), failed grows by one for that file and the run
\* goes on with the next inventory entry.
C8_FailureCounted ==
    (job # None /\ ~dry_run /\ pc \in {"files", "complete"}
        /\ Range(job.steps) \cap {"rename failed", "unlink failed", "install failed"} # {})
        => failed = job.before.failed + 1

\* C9: in a dry run the directories and the files under the target stay what
\* they were when the run started: nothing is renamed, created, deleted or
\* re-encoded, and no temporary file appears.
C9_PreviewChangesNothing ==
    (dry_run /\ pc # "idle") => (dirs = start.dirs /\ files = start.files)

\* C9 witness: a dry run is complete that reported a directory to rename and a
\* file to rename and convert
C9_Witness ==
    /\ dry_run /\ pc = "complete"
    /\ \E d \in dirs : Last(d) # sanitize_name(Last(d))
    /\ renamed > 0 /\ converted > 0

\* the run-fatal conditions of C10, over what main() was given; accepted(r)
\* says which answers to the prompt count as a yes
C10_Fatal(in, accepted(_)) ==
    \/ in.ffmpeg # "ok"
    \/ in.ffprobe # "ok"
    \/ Len(in.argv) = 0
    \/ startswith(in.argv[1], DASHES)
    \/ in.target # "dir"
    \/ /\ DRY_RUN \notin Range(in.argv)
       /\ FORCE \notin Range(in.argv)
       /\ ~accepted(in.response)

C10_Aborted ==
    /\ pc = "exited"
    /\ exit_code # 0
    /\ dirs = start.dirs /\ files = start.files
    /\ log_file = start.log

IsYes(r) == r = YES
IsYesAnyCase(r) == lower(r) = YES

\* C10 as stated: when a run-fatal condition holds (a tool unreachable, no
\* target or a first argument starting with '--', a target that is missing or
\* no directory, or in live mode without --force any answer other than 'yes'),
\* the run exits non-zero before phase 1 and the tree is unchanged: nothing
\* renamed, no report file written.
C10_FatalAborts ==
    (inputs # None /\ C10_Fatal(inputs, IsYes)) => C10_Aborted

\* C10 as amended: the same, the answer being compared in lower case, so that
\* 'YES' and 'Yes' are a yes too.
C10_FatalAbortsAnyCase ==
    /\ (inputs # None /\ C10_Fatal(inputs, IsYesAnyCase)) => C10_Aborted
    /\ pc = "exited" => C10_Aborted

\* C10 witness: the user has declined and the run has exited
C10_Witness == pc = "exited" /\ inputs.response = <<"n","o">>


\* an apply run has ended with its summary and none of its steps has failed
CleanApplyDone == pc = "complete" /\ ~dry_run /\ clean

\* C11: after an apply run in which no rename, encode or delete step failed,
\* every directory name and every candidate file name under the target is
\* lower-case without spaces (equal to its normalized form), and every candidate
\* file is a .wav at 44100 Hz / 16 bit.
C11_AllNormalized ==
    CleanApplyDone =>
        /\ \A d \in dirs : Last(d) = sanitize_name(Last(d))
        /\ \A f \in files :
              IsCandidateName(f.name) =>
                  /\ f.name = sanitize_name(f.name)
                  /\ suffix(f.name) = DOT_WAV
                  /\ ~ffprobe(f.fmt).raises
                  /\ ffprobe(f.fmt).returncode = 0
                  /\ ffprobe(f.fmt).parses
                  /\ ffprobe(f.fmt).audio
                  /\ ffprobe(f.fmt).rate = 44100
                  /\ ffprobe(f.fmt).bits = 16


\* the directories of all_dirs that the loop of phase 1 has not reached yet
Remaining == {all_dirs[k] : k \in (di + 1)..Len(all_dirs)}
Ancestors(d) == {SubSeq(d, 1, n) : n \in 1..(Len(d) - 1)}

\* C12: in phase 1 of an apply run the directories are taken in order of
\* non-increasing depth, and when the loop reaches a directory each of its
\* ancestors is still to come and still at its path, and the directory is
\* still at the path the enumeration recorded: no entry is skipped or fails
\* because its path went stale.
C12_DeepestFirstNoStalePath ==
    (pc = "dirs" /\ ~dry_run) =>
        /\ \A a, b \in DOMAIN all_dirs : a < b => Len(all_dirs[a]) >= Len(all_dirs[b])
        /\ di <= Len(all_dirs) =>
              /\ all_dirs[di] \in dirs
              /\ \A anc \in Ancestors(all_dirs[di]) : anc \in Remaining /\ anc \in dirs

\* C12 witness: a nested directory has been renamed and the loop is at its
\* parent, which is to be renamed too
C12_Witness ==
    /\ pc = "dirs" /\ ~dry_run /\ di = 2 /\ Len(all_dirs) = 2
    /\ Len(all_dirs[1]) = 2 /\ all_dirs[2] = Front(all_dirs[1])
    /\ renamed_count = 1
    /\ Last(all_dirs[2]) # sanitize_name(Last(all_dirs[2]))


\* the loop of phase 1 is at a directory whose normalized path is taken already
Collision ==
    /\ pc = "dirs" /\ di <= Len(all_dirs) /\ ~dry_run
    /\ LET old_dir == all_dirs[di]
           new_dir == Append(Front(old_dir), sanitize_name(Last(old_dir)))
       IN /\ old_dir \in dirs
          /\ new_dir # old_dir
          /\ \/ new_dir \in dirs
             \/ \E f \in files : f.dir = Front(new_dir) /\ f.name = Last(new_dir)

\* C13: in phase 1, when the normalized path of a directory exists already, the
\* rename is a failure for that directory: the directory keeps its name and
\* contents, what is at the normalized path is neither replaced nor merged, the
\* rename count does not grow, the error is reported and the loop goes on with
\* the next directory.
C13_CollisionIsFailure ==
    [][Collision =>
          /\ dirs' = dirs
          /\ files' = files
          /\ renamed_count' = renamed_count
          /\ log_file' = log_file \o <<"Rename", "ERROR">>
          /\ di' = di + 1
          /\ pc' = "dirs"]_vars


Decided == job # None /\ pc \notin {"idle", "call", "returned"} /\ job.fmt \in {"clean", "dirty"}

Phase2Pcs == {"files", "encode", "unlink", "install", "convert error", "encode failed"}

\* the paths of the audio files under the target, by their extension
AudioPaths ==
    {PathOf(f) : f \in {g \in files :
        /\ \E e \in {DOT_WAV, DOT_AIF, DOT_AIFF, DOT_MP3, DOT_FLAC} : endswith(lower(g.name), e)
        /\ g.name # LOG_NAME}}

\* C16: in every run phase 1 has made all its rename attempts before the
\* inventory is collected; the inventory holds every audio file once and is
\* fixed before the first file is touched; the files are handled one at a time
\* in the order of the inventory; an entry whose path is gone at its turn is
\* skipped: no counter changes and no error is reported.
C16_PhasesAndInventoryOrder ==
    [][/\ pc \in {"phase1", "dirs"} =>
             /\ audio_files' = <<>>
             /\ pc' = "phase2" => (pc = "dirs" /\ di > Len(all_dirs))
       /\ pc = "phase2" =>
             /\ {audio_files'[k] : k \in DOMAIN audio_files'} = AudioPaths
             /\ Len(audio_files') = Cardinality(AudioPaths)
             /\ dirs' = dirs /\ files' = files
             /\ i' = 1
       /\ (pc \in Phase2Pcs /\ pc' # "idle") =>
             /\ audio_files' = audio_files
             /\ dirs' = dirs
             /\ i' \in {i, i + 1}
             /\ files' # files => (job' # None /\ job'.old_path = audio_files[i])
       /\ (pc = "files" /\ i <= total /\ ~exists(audio_files[i])) =>
             /\ files' = files
             /\ processed' = processed /\ renamed' = renamed
             /\ converted' = converted /\ failed' = failed
             /\ log_file' = log_file
             /\ clean' = clean
             /\ i' = i + 1
             /\ pc' = "files"]_vars

\* C16 witness: an apply run is complete in which an entry of the inventory
\* was gone at its turn and an earlier entry was converted
C16_Witness ==
    /\ pc = "complete" /\ ~dry_run
    /\ \E k \in DOMAIN decided : decided[k] = "gone"
    /\ converted > 0


\* C17: no failure on one directory or one file (a rename, a probe, an encode,
\* the deletion of the original, the rename or the removal of the temporary
\* file) ends the run: the run never stops short of the summary, and when it
\* has ended every entry of the inventory has had its turn and the summary is
\* written.
C17_NoFailureEndsRun ==
    /\ pc # "crashed"
    /\ (pc = "complete" /\ total > 0) =>
          /\ i = total + 1
          /\ \A k \in DOMAIN decided : decided[k] # "unseen"
          /\ log_file[Len(log_file)] = "Summary"
          /\ exit_code = 0


\* the inventory entries that existed at their turn and had an action other than None
Acted == {k \in DOMAIN decided : decided[k] \in {"rename", "convert", "rename+convert"}}

\* the relations of the counters that C18 states for every point between two entries
CountersInRange ==
    /\ processed <= Cardinality(Acted)
    /\ dry_run => processed = Cardinality(Acted)
    /\ processed <= renamed + converted
    /\ renamed + converted <= 2 * processed
    /\ processed + failed <= total

\* C18: in both modes, after each inventory entry is handled, processed counts
\* each file at most once, processed <= renamed + converted <= 2 * processed and
\* processed + failed <= total; at the end of an apply run processed + failed is
\* the number of entries that existed at their turn and had an action other
\* than None.
C18_CounterRelations ==
    /\ pc \in {"files", "complete"} => CountersInRange
    /\ (pc = "complete" /\ ~dry_run) => processed + failed = Cardinality(Acted)


\* C19: in apply mode no step of the transformation of one file overwrites,
\* replaces or deletes another file: a file that holds another audio content
\* is after the step where and what it was before, whether it sits at the
\* temporary path, at the final path or elsewhere.
C19_NoOtherFileTouched ==
    [][(pc \in Phase2Pcs /\ ~dry_run /\ files' # files) =>
          \A f \in files : f.id \notin {0, job'.id} => f \in files']_vars

====
